---------------------------- MODULE Spec2Model ----------------------------
(***************************************************************************)
(* Aethel (soul-resonance-studio): the capture orchestrator                *)
(* (CaptureInterface inside Index), the AudioAnalyzer class and the        *)
(* browser facilities they drive (device streams, window timers,           *)
(* animation frames), as a state machine.                                  *)
(*                                                                         *)
(* Real numbers of the source are kept in thousandths (0.3 is 300).        *)
(* Time is in milliseconds; it advances from one timer deadline to the     *)
(* next (the action Advance), and a handler runs at one instant.  A        *)
(* handler's action includes the React commit it causes: the re-render     *)
(* and the effect cleanups and set-ups of the changed dependencies.        *)
(***************************************************************************)
EXTENDS Integers, Sequences, FiniteSets, TLC

VARIABLES
  currentView,        \* Index: 'capture' | 'gallery' | 'profile'
  userSoulPrints,     \* Index: the session list, newest first
  isCapturing,        \* CaptureInterface state
  captureMode,        \* CaptureInterface state
  biometricData,      \* CaptureInterface state: the FeatureVector
  streamRef,          \* CaptureInterface ref: 0 (null) or a stream
  analysisIntervalRef,\* CaptureInterface ref: 0 (null) or a timer id
  soundInterval,      \* the sound effect's closure: 0 or its timer id
  videoEl,            \* the <video> element: NoVideo or its record
  analyzerRef,        \* useAudioAnalyzer ref: 0 (null) or an analyzer
  streams,            \* every MediaStream created so far
  analyzers,          \* every AudioAnalyzer created so far
  starts,             \* every startCapture invocation so far
  timers,             \* the window's registered timers
  now,                \* Date.now(), up to renaming of instants
  nowUsed,            \* an id was drawn from the current instant
  elapsed,            \* ms of the current session, capped
  soundPlayed,        \* playBiometricSounds was invoked this session
  faults,             \* teardown calls that have failed so far
  idleStops,          \* stopCapture calls made outside a session so far
  stopOutcome,        \* the last stopCapture: "none" | "ok" | "threw"
  ticked,             \* a timer/frame feature callback wrote the vector
  startSample,        \* first sample written inside startCapture, or NoFV
  unit,               \* an AudioAnalyzer driven through its own methods
  unitCalls,          \* method calls made on unit so far
  unitCallbacks,      \* invocations of unit's callback so far
  unitStopped,        \* stopAnalysis()/cleanup() returned, no start since
  input,              \* what one analysis tick is given: a frame or a buffer
  output,             \* what that tick produced
  fellBack,           \* an earlier facial tick returned the catch result
  vizInstance,        \* SoulPrint: which mount of the visualization this is
  vizMounted,         \* SoulPrint: the instance is in the tree
  isActive,           \* SoulPrint prop
  vizIntensity,       \* SoulPrint prop intensity, in thousandths
  pulsePhase,         \* SoulPrint state
  phaseTimers,        \* intervals registered by SoulPrint's effect
  phaseTicked,        \* the last step ran the interval's callback
  synthRef,           \* useSoundSynthesizer ref: 0 (null) or an object
  synthObjs,          \* the SoundSynthesizer objects created so far
  synthTimers,        \* timeouts registered by the objects' methods
  plays,              \* the playBiometricSounds calls made so far
  fired,              \* what the timeouts that ran did
  seq,                \* the Tone.Sequence of generateSoulPrintAudio
  synthCalls          \* method calls made on an object directly so far

appVars == << currentView, userSoulPrints, isCapturing, captureMode,
              biometricData, streamRef, analysisIntervalRef, soundInterval,
              videoEl, analyzerRef, streams, analyzers, starts, timers, now,
              nowUsed, elapsed, soundPlayed, faults, idleStops, stopOutcome,
              ticked, startSample >>

unitVars == << unit, unitCalls, unitCallbacks, unitStopped >>

tickVars == << input, output, fellBack >>

vizVars == << vizInstance, vizMounted, isActive, vizIntensity, pulsePhase,
              phaseTimers, phaseTicked >>

synthVars == << synthRef, synthObjs, synthTimers, plays, fired, seq,
                synthCalls >>

pageRest == << captureMode, biometricData, streamRef, analysisIntervalRef,
               soundInterval, videoEl, analyzerRef, streams, analyzers,
               starts, timers, now, nowUsed, elapsed, soundPlayed, faults,
               idleStops, stopOutcome, ticked, startSample >>

auxVars == << vizVars, synthVars >>

sideVars == << unitVars, tickVars, auxVars >>

vars == << appVars, unitVars, tickVars, auxVars >>

-----------------------------------------------------------------------------
(* Bounds of the model *)

MaxStarts == 2        \* startCapture invocations in one run, and
                      \* stopCapture calls outside a session with them
MaxFaults == 1        \* failing teardown calls in one run
MaxIdleStops == 1     \* stopCapture calls outside a session in one run
MaxCalls == 5         \* method calls on the AudioAnalyzer driven directly
MaxCallbacks == 3     \* callback invocations of that AudioAnalyzer
MaxW == 3             \* widest video frame analysed, in pixels
MaxH == 2             \* tallest video frame analysed, in pixels
FramePeriod == 50     \* ms between two animation frames
MaxInstances == 2     \* mounts of one SoulPrint visualization in one run
MaxSynthObjs == 2     \* SoundSynthesizer objects created in one run
MaxPlays == 1         \* playBiometricSounds calls in one run
MaxNotes == 2         \* callbacks of the soul-print sequence in one run
MaxSynthCalls == 4    \* direct method calls on a SoundSynthesizer

(* Program constants *)

FftSize == 256
Bands == 5
PollIntervalMs == 100
SoundIntervalMs == 800
AmbientIntervalMs == 150
AmbientStopMs == 30000
IntensityGate == 100
PhaseIntervalMs == 50
VoiceCount == 5
HarmonicGate == 100
TriggerStaggerMs == 50
PhaseModulus == 360

Modes == {"audio", "video", "ambient"}
Views == {"capture", "gallery", "profile"}

Min(a, b) == IF a < b THEN a ELSE b
Max(a, b) == IF a > b THEN a ELSE b

(* reduce((sum, value) => sum + value, 0), by halves *)
RECURSIVE SumRange(_, _, _)
SumRange(s, lo, hi) ==
  IF lo > hi THEN 0
  ELSE IF lo = hi THEN s[lo]
  ELSE LET mid == (lo + hi) \div 2
       IN  SumRange(s, lo, mid) + SumRange(s, mid + 1, hi)

SumSeq(s) == SumRange(s, 1, Len(s))

SetMin(S) == CHOOSE x \in S : \A y \in S : x <= y

-----------------------------------------------------------------------------
(* FeatureVector *)

DefaultFV ==
  [intensity |-> 300, harmonics |-> <<400, 600, 500, 800, 300>>,
   resonance |-> 500]

NoFV == [intensity |-> -1, harmonics |-> << >>, resonance |-> -1]

(* AudioAnalyzer.startAnalysis, the body of analyze: one tick over the    *)
(* byte magnitudes data (a sequence; bin i of the source is data[i+1]).   *)
BinCount == FftSize \div 2

Slice(data, start, end) ==
  [k \in 1..(Min(end, Len(data)) - start) |-> data[start + k]]

(* The band with its width rounded up, so that the bands reach the end. *)
BandAvg_RoundedUp(data, i) ==
  LET bandSize == (Len(data) + Bands - 1) \div Bands
      bandData == Slice(data, i * bandSize, i * bandSize + bandSize)
  IN  (SumSeq(bandData) * 1000) \div (Len(bandData) * 255)

BandAvg(data, i) ==
  LET bandSize == Len(data) \div Bands
      bandData == Slice(data, i * bandSize, i * bandSize + bandSize)
  IN  (SumSeq(bandData) * 1000) \div (Len(bandData) * 255)

(* The tick without the magnitudeSum > 0 test: 0 / 0 is NaN, written -1. *)
Analyze_Unguarded(data) ==
  LET magnitudeSum == SumSeq(data)
      weightedSum == SumSeq([k \in 1..Len(data) |-> (k - 1) * data[k]])
  IN  [intensity |-> (magnitudeSum * 1000) \div (Len(data) * 255),
       harmonics |-> [i \in 1..Bands |-> BandAvg(data, i - 1)],
       resonance |-> IF magnitudeSum = 0 THEN -1
                       ELSE (weightedSum * 1000)
                              \div (magnitudeSum * Len(data))]

Analyze(data) ==
  LET magnitudeSum == SumSeq(data)
      weightedSum == SumSeq([k \in 1..Len(data) |-> (k - 1) * data[k]])
  IN  [intensity |-> (magnitudeSum * 1000) \div (Len(data) * 255),
       harmonics |-> [i \in 1..Bands |-> BandAvg(data, i - 1)],
       resonance |-> IF magnitudeSum > 0
                       THEN (weightedSum * 1000)
                              \div (magnitudeSum * Len(data))
                       ELSE 0]

(* The microphone inputs of the model: silence and a loud flat spectrum. *)
SilentBuffer == [k \in 1..BinCount |-> 0]
LoudBuffer == [k \in 1..BinCount |-> 153]
AudioBuffers == {SilentBuffer, LoudBuffer}
AudioSamples == {Analyze(data) : data \in AudioBuffers}

(* The facial poll's conversion of FacialMetrics to a FeatureVector. *)
Abs(x) == IF x < 0 THEN -x ELSE x

(* The conversion with resonance as the sum, not the mean, of the two. *)
FacialToFV_Sum(m) ==
  [intensity |-> m.brightness,
   harmonics |-> << m.contrast, m.symmetry, m.expressionIntensity,
                    Abs(m.emotionalValence), m.brightness >>,
   resonance |-> m.expressionIntensity + Abs(m.emotionalValence)]

FacialToFV(m) ==
  [intensity |-> m.brightness,
   harmonics |-> << m.contrast, m.symmetry, m.expressionIntensity,
                    Abs(m.emotionalValence), m.brightness >>,
   resonance |-> (m.expressionIntensity + Abs(m.emotionalValence)) \div 2]

NeutralMetrics ==
  [brightness |-> 500, contrast |-> 500, symmetry |-> 500,
   expressionIntensity |-> 500, emotionalValence |-> 0]

DarkMetrics ==
  [brightness |-> 0, contrast |-> 0, symmetry |-> 1000,
   expressionIntensity |-> 0, emotionalValence |-> -1000]

FacialSamples == {NeutralMetrics, DarkMetrics}

-----------------------------------------------------------------------------
(* class FacialAnalyzer.  A frame is what the <video> element shows:     *)
(* videoWidth w, videoHeight h and the pixels px in ImageData order      *)
(* (row by row; pixel (x, y) is px[y * w + x + 1]), each with r, g, b.   *)

Black == [r |-> 0, g |-> 0, b |-> 0]
White == [r |-> 255, g |-> 255, b |-> 255]
Red == [r |-> 255, g |-> 0, b |-> 0]
Palette == {Black, White, Red}

MakeFrame(w, h, px) == [w |-> w, h |-> h, px |-> px]

Frames ==
  UNION {{MakeFrame(w, h, px) : px \in [1..(w * h) -> Palette]} :
           w \in 0..MaxW, h \in 0..MaxH}

(* The luminance normalised by 256 instead of 255. *)
Luminance_Over256(p) == (299 * p.r + 587 * p.g + 114 * p.b) \div 256

(* (0.299 * r + 0.587 * g + 0.114 * b) / 255 *)
Luminance(p) == (299 * p.r + 587 * p.g + 114 * p.b) \div 255

(* Math.sqrt, rounded down to a thousandth, of n millionths. *)
Sqrt(n) == CHOOSE k \in 0..1000 : k * k <= n /\ n < (k + 1) * (k + 1)

(* The returned fields without Math.min and Math.max. *)
Clamp_None(lo, hi, x) == x

(* Math.min(hi, Math.max(lo, x)) *)
Clamp(lo, hi, x) == Min(hi, Max(lo, x))

(* context.getImageData(sx, sy, sw, sh) of frame f, as the brightness of *)
(* its pixels in ImageData order; the arguments are already integers.    *)
RegionBrightness(f, sx, sy, sw, sh) ==
  [k \in 1..(sw * sh) |->
     Luminance(f.px[(sy + (k - 1) \div sw) * f.w + sx + ((k - 1) % sw) + 1])]

Mean(b) == SumSeq(b) \div Len(b)

(* Math.sqrt(sum of (brightness - avg)^2 / pixels) *)
Deviation(b, avg) ==
  Sqrt(SumSeq([k \in 1..Len(b) |-> (b[k] - avg) * (b[k] - avg)])
         \div Len(b))

(* getImageData throws IndexSizeError for a zero width or height: the    *)
(* whole frame when w or h is 0, the left half when w / 2 truncates to 0.*)
ExtractionThrows(f) == f.w = 0 \/ f.h = 0 \/ f.w \div 2 = 0

(* The right half taken from the right edge, so that an odd width drops *)
(* the middle column.                                                    *)
RightHalfStart_FromEdge(w) == w - w \div 2

(* The sx of rightHalf: canvas.width / 2 converted to an integer. *)
RightHalfStart(w) == w \div 2

(* The try block of analyzeFacialMetrics. *)
ExtractMetrics(f) ==
  IF ExtractionThrows(f)
    THEN [threw |-> TRUE, value |-> << >>]
    ELSE
      LET all == RegionBrightness(f, 0, 0, f.w, f.h)
          avgBrightness == Mean(all)
          contrast == Deviation(all, avgBrightness)
          half == f.w \div 2
          leftHalf == RegionBrightness(f, 0, 0, half, f.h)
          rightHalf == RegionBrightness(f, RightHalfStart(f.w), 0, half,
                                        f.h)
          symmetryDiff ==
            SumSeq([k \in 1..Len(leftHalf) |->
                      Abs(leftHalf[k] - rightHalf[k])])
          symmetry == 1000 - (symmetryDiff \div Len(leftHalf))
          lowerFaceY == (f.h * 6) \div 10
          lowerFace == RegionBrightness(f, 0, lowerFaceY, f.w,
                                        f.h - lowerFaceY)
          lowerFaceContrast == Deviation(lowerFace, Mean(lowerFace))
          expressionIntensity == lowerFaceContrast * 2
          emotionalValence == (avgBrightness - 500) * 2
      IN  [threw |-> FALSE,
           value |->
             [brightness |-> Clamp(0, 1000, avgBrightness),
              contrast |-> Clamp(0, 1000, contrast * 4),
              symmetry |-> Clamp(0, 1000, symmetry),
              expressionIntensity |-> Clamp(0, 1000, expressionIntensity),
              emotionalValence |-> Clamp(-1000, 1000, emotionalValence)]]

(* analyzeFacialMetrics without its catch block. *)
analyzeFacialMetrics_NoCatch(f) == ExtractMetrics(f)

(* analyzeFacialMetrics(video): try ... catch: the neutral metrics. *)
analyzeFacialMetrics(f) ==
  LET r == ExtractMetrics(f)
  IN  IF r.threw THEN [threw |-> FALSE, value |-> NeutralMetrics] ELSE r

(* captureFrame(video): the data URL of the frame, or '' when drawing or *)
(* encoding throws (fail).                                               *)
captureFrame(fail) ==
  LET r == [threw |-> fail, value |-> IF fail THEN "" ELSE "jpeg"]
  IN  IF r.threw THEN [threw |-> FALSE, value |-> ""] ELSE r

-----------------------------------------------------------------------------
(* class SoundSynthesizer.  An object holds synths voices (the length of *)
(* this.synths), a reverb and a filter (FALSE is null), isInitialized,   *)
(* the number of its initialize() calls suspended at await Tone.start(), *)
(* and leaked: nodes it created that it no longer holds and never        *)
(* disposed.                                                             *)

NewSynth ==
  [synths |-> 0, reverb |-> FALSE, filter |-> FALSE, isInitialized |-> FALSE,
   awaiting |-> 0, leaked |-> 0]

(* initialize(), up to await Tone.start(). *)
SS_initialize(o) ==
  IF o.isInitialized THEN o ELSE [o EXCEPT !.awaiting = @ + 1]

(* initialize() after the await with no second look at isInitialized. *)
(* ok: Tone.start() resolved; otherwise the catch rethrows.           *)
SS_resume(o, ok) ==
  IF ok
    THEN [o EXCEPT !.awaiting = @ - 1,
                   !.leaked = @ + (IF o.reverb THEN 1 ELSE 0)
                                + (IF o.filter THEN 1 ELSE 0),
                   !.reverb = TRUE,
                   !.filter = TRUE,
                   !.synths = @ + VoiceCount,
                   !.isInitialized = TRUE]
    ELSE [o EXCEPT !.awaiting = @ - 1]

(* cleanup() *)
SS_cleanup(o) ==
  [o EXCEPT !.synths = 0, !.reverb = FALSE, !.filter = FALSE,
            !.isInitialized = FALSE]

(* playBiometricSounds(fv): the setTimeout calls it makes, one per voice *)
(* it decides to trigger, with the note computed at the call (frequency  *)
(* and volume in thousandths of Hz and dB).                              *)
PlayTriggers(o, fv) ==
  IF ~o.isInitialized \/ o.synths = 0
    THEN {}
    ELSE LET baseFreq == 220000 + fv.intensity * 220
         IN  {[index |-> i,
               frequency |-> (baseFreq * (i + 1)) \div 2,
               volume |-> Max(-40000, (fv.harmonics[i + 1] * fv.intensity)
                                        \div 1000 - 60000),
               delay |-> i * TriggerStaggerMs] :
                i \in {j \in 0..(Len(fv.harmonics) - 1) :
                         fv.harmonics[j + 1] > HarmonicGate
                           /\ j < o.synths}}

NoSequence == [state |-> "none", obj |-> 0, notes |-> 0, hits |-> 0]

(* generateSoulPrintAudio(soulPrint): sequence.start(0) and              *)
(* Tone.Transport.start(), unless the object is not initialized.         *)
SS_generate(o, id, q) ==
  IF o.isInitialized
    THEN [state |-> "started", obj |-> id, notes |-> 0, hits |-> 0]
    ELSE q

(* The sequence's callback: if (this.synths[0]) trigger voice 0. *)
SS_note(o, q) ==
  [q EXCEPT !.notes = @ + 1,
            !.hits = @ + (IF o.synths > 0 THEN 1 ELSE 0)]

(* The timeout's callback: this.synths[index].triggerAttackRelease(...); *)
(* this.synths[index] is read when the callback runs.                    *)
TriggerOutcome(o, index) == IF index < o.synths THEN "played" ELSE "threw"

-----------------------------------------------------------------------------
(* The SoulPrint visualization component. *)

(* The effect of SoulPrint without the cleanup it returns. *)
PhaseEffectCleanup_None(T, inst) == T

(* return () => clearInterval(interval) *)
PhaseEffectCleanup(T, inst) == {t \in T : t.owner # inst}

(* useEffect(..., [isActive]): nothing when isActive is false, else      *)
(* setInterval(..., 50).                                                 *)
PhaseEffect(T, inst, active) ==
  IF active
    THEN T \cup {[owner |-> inst, period |-> PhaseIntervalMs,
                  id |-> Cardinality(T) + 1]}
    ELSE T

-----------------------------------------------------------------------------
(* One analysis tick on its own: what it is given and what it produces.  *)

NoInput == [kind |-> "none"]
NoOutput == [kind |-> "none"]

(* Spectra given to an audio tick: flat ones, one with a single non-zero *)
(* bin, and one filled up to a bin. bin is the source's 0-based index.   *)
Flat(v) == [k \in 1..BinCount |-> v]
Spike(bin, v) == [k \in 1..BinCount |-> IF k = bin + 1 THEN v ELSE 0]
Step(bin, v) == [k \in 1..BinCount |-> IF k <= bin + 1 THEN v ELSE 0]
Levels == {1, 128, 255}
Buffers ==
  {Flat(v) : v \in {0} \cup Levels}
    \cup {Spike(bin, v) : bin \in 0..(BinCount - 1), v \in Levels}
    \cup {Step(bin, v) : bin \in 0..(BinCount - 1), v \in Levels}

Inputs ==
  {[kind |-> "frame", frame |-> f] : f \in Frames}
    \cup {[kind |-> "buffer", data |-> d] : d \in Buffers}

-----------------------------------------------------------------------------
(* The ambient generator: trigonometric functions of the wall clock, as  *)
(* one of the vectors they produce (intensity in 0.1..0.5, harmonics in  *)
(* 0..0.6, one per harmonic of prev, resonance in 0.2..0.6).             *)
AmbientFV(prev) ==
  [intensity |-> 450,
   harmonics |-> [i \in 1..Len(prev.harmonics) |-> 550],
   resonance |-> 550]

-----------------------------------------------------------------------------
(* SoulPrint, as stopCapture assembles it *)

generateVisualSignature(bd, mode) ==
  [primaryHue |-> (bd.intensity * 360) \div 1000,
   saturation |-> bd.resonance,
   complexity |-> SumSeq(bd.harmonics) \div Len(bd.harmonics),
   patterns |-> bd.harmonics,
   captureMethod |-> mode]

generateAudioSignature(bd, mode) ==
  [baseFrequency |-> 220000 + bd.intensity * 220,
   harmonicSeries |-> [i \in 1..Len(bd.harmonics) |-> bd.harmonics[i] * 880],
   resonanceDepth |-> bd.resonance,
   rhythmPattern |-> bd.harmonics,
   captureMethod |-> mode]

(* A SoulPrint assembled from the initial vector, whatever the state is. *)
MakeSoulPrint_Initial(t, mode, bd, frame) ==
  [id |-> t, timestamp |-> t, captureMode |-> mode,
   biometricData |-> DefaultFV,
   visualSignature |-> generateVisualSignature(DefaultFV, mode),
   audioSignature |-> generateAudioSignature(DefaultFV, mode),
   capturedFrame |-> frame]

(* const soulPrint = {...} of stopCapture; t is Date.now(). *)
MakeSoulPrint(t, mode, bd, frame) ==
  [id |-> t, timestamp |-> t, captureMode |-> mode, biometricData |-> bd,
   visualSignature |-> generateVisualSignature(bd, mode),
   audioSignature |-> generateAudioSignature(bd, mode),
   capturedFrame |-> frame]


(* A handler that keeps the new record alone. *)
handleSoulPrintGenerated_Replace(prev, soulPrint) == << soulPrint >>

(* Index.handleSoulPrintGenerated: setUserSoulPrints(prev =>              *)
(* [soulPrint, ...prev]); the view switch is in stopCapture's action.     *)
handleSoulPrintGenerated(prev, soulPrint) == << soulPrint >> \o prev

-----------------------------------------------------------------------------
(* class AudioAnalyzer.  pending holds the animation-frame handles whose  *)
(* callback (analyze) has not run yet; animationId = 0 is null.           *)
(* disconnects and closes count the calls of microphone.disconnect() and  *)
(* audioContext.close(), up to 2.  alive and owner are the closure of the *)
(* callback: the component instance is mounted, the startCapture it is of.*)

NewAnalyzer(owner, alive) ==
  [audioContext |-> "null", analyser |-> FALSE, microphone |-> "null",
   animationId |-> 0, pending |-> {}, disconnects |-> 0, closes |-> 0,
   alive |-> alive, owner |-> owner]

(* initialize(stream); fail names the call that throws: "none", the     *)
(* AudioContext constructor, or createMediaStreamSource.                *)
AA_initialize(a, fail) ==
  CASE fail = "context" -> a
    [] fail = "source" ->
         [a EXCEPT !.audioContext = "running", !.analyser = TRUE]
    [] OTHER ->
         [a EXCEPT !.audioContext = "running", !.analyser = TRUE,
                   !.microphone = "connected"]

FreshHandle(a) ==
  SetMin({n \in 1..(Cardinality(a.pending) + 2) :
            n \notin a.pending /\ n # a.animationId})

(* this.animationId = requestAnimationFrame(analyze) *)
RequestFrame(a) ==
  LET h == FreshHandle(a)
  IN  [a EXCEPT !.animationId = h, !.pending = @ \cup {h}]

AA_stopAnalysis(a) ==
  IF a.animationId # 0
    THEN [a EXCEPT !.pending = @ \ {a.animationId}, !.animationId = 0]
    ELSE a

Bump(n) == Min(n + 1, 2)

(* cleanup(); the result is the analyzer and whether the call threw.    *)
(* discFail: microphone.disconnect() throws; closeFail: close() fails,  *)
(* which is a rejected promise and throws nothing.                      *)
AA_cleanup(a, discFail, closeFail) ==
  LET a1 == AA_stopAnalysis(a)
      a2 == IF a1.microphone # "null"
              THEN [a1 EXCEPT !.microphone =
                                 IF discFail THEN @ ELSE "disconnected",
                              !.disconnects = Bump(@)]
              ELSE a1
      threw == a1.microphone # "null" /\ discFail
      a3 == IF ~threw /\ a2.audioContext # "null"
              THEN [a2 EXCEPT !.audioContext =
                                 IF closeFail THEN @ ELSE "closed",
                              !.closes = Bump(@)]
              ELSE a2
  IN  [a |-> a3, threw |-> threw]

(* One analyze(), serving frame handle h (0: the direct call made by    *)
(* startAnalysis): the callback runs, and then the next frame is         *)
(* requested.  stopInside: the callback calls stopAnalysis().            *)
analyze(a, h, stopInside) ==
  LET a1 == [a EXCEPT !.pending = @ \ {h}]
      a2 == IF stopInside THEN AA_stopAnalysis(a1) ELSE a1
  IN  IF ~a.analyser THEN a1 ELSE RequestFrame(a2)

(* The frame callbacks in H run, in handle order. *)
RECURSIVE FireFrames(_, _)
FireFrames(a, H) ==
  IF H = {} THEN a
  ELSE LET h == SetMin(H)
       IN  FireFrames(analyze(a, h, FALSE), H \ {h})

(* startAnalysis(callback): the first analyze() runs inside the call. *)
AA_startAnalysis(a, stopInside) ==
  IF ~a.analyser THEN a ELSE analyze(a, 0, stopInside)

Running(a) == a.pending # {}


-----------------------------------------------------------------------------
(* The browser: streams, the <video> element, window timers *)

NoVideo == [present |-> FALSE, src |-> 0, readyState |-> 0, handler |-> 0]

NewStream(kind, owner) ==
  [kind |-> kind, live |-> kind # "dummy", owner |-> owner]

NewStart(mode, pc, gum) ==
  [mode |-> mode, pc |-> pc, stream |-> 0, alive |-> TRUE,
   toast |-> "none", gum |-> gum, failure |-> "none"]

Timer(id, kind, rem, fv, owner, target) ==
  [id |-> id, kind |-> kind, rem |-> rem, fv |-> fv, owner |-> owner,
   target |-> target, alive |-> TRUE]

TimerIds(T) == {t.id : t \in T}

FreshTimer(T, refs) ==
  SetMin({n \in 1..(Cardinality(T) + Cardinality(refs) + 1) :
            n \notin TimerIds(T) \cup refs})

(* clearInterval that clears nothing. *)
ClearTimer_None(T, id) == T

ClearTimer(T, id) == {t \in T : t.id # id}

Rearm(T, t, period) == (T \ {t}) \cup {[t EXCEPT !.rem = period]}

(* The frame clock (id 0) stands for the next animation frame of the     *)
(* mounted instance's analyzers; it runs while one of them has a frame   *)
(* pending.                                                              *)
WithFrameClock(T, A) ==
  LET need == \E i \in DOMAIN A : A[i].alive /\ Running(A[i])
      has == \E t \in T : t.kind = "frame"
  IN  IF need /\ ~has
        THEN T \cup {Timer(0, "frame", FramePeriod, NoFV, 0, 0)}
        ELSE IF ~need THEN {t \in T : t.kind # "frame"} ELSE T

Mounted == currentView = "capture"

-----------------------------------------------------------------------------
(* CaptureInterface: the effects of one commit.  cap, mode and bd are the *)
(* state being committed, bdChanged says setBiometricData was called, T   *)
(* the timers, air analysisIntervalRef.current and sid the sound          *)
(* effect's interval before the commit.                                   *)

FacialEffect(cap, mode, T, air, sid) ==
  LET rerun == cap # isCapturing \/ mode # captureMode
      T1 == IF rerun /\ air # 0 THEN ClearTimer(T, air) ELSE T
      setup == rerun /\ cap /\ mode = "video"
      id == FreshTimer(T1, {sid})
  IN  [timers |-> IF setup
                    THEN T1 \cup {Timer(id, "facial", PollIntervalMs,
                                        NoFV, 0, 0)}
                    ELSE T1,
       air |-> IF setup THEN id ELSE IF rerun THEN 0 ELSE air]

SoundEffect(cap, bd, bdChanged, T, air, sid) ==
  LET rerun == cap # isCapturing \/ bdChanged
      T1 == IF rerun /\ sid # 0 THEN ClearTimer(T, sid) ELSE T
      setup == rerun /\ cap /\ bd.intensity > IntensityGate
      id == FreshTimer(T1, {air})
  IN  [timers |-> IF setup
                    THEN T1 \cup {Timer(id, "sound", SoundIntervalMs,
                                        bd, 0, 0)}
                    ELSE T1,
       sid |-> IF setup THEN id ELSE IF rerun THEN 0 ELSE sid]

Effects(cap, mode, bd, bdChanged, T, air, sid) ==
  LET f == FacialEffect(cap, mode, T, air, sid)
      g == SoundEffect(cap, bd, bdChanged, f.timers, f.air, sid)
  IN  [timers |-> g.timers, air |-> f.air, sid |-> g.sid]

VideoAfter(cap, mode, v) ==
  IF cap /\ mode = "video"
    THEN IF v.present THEN v ELSE [NoVideo EXCEPT !.present = TRUE]
    ELSE NoVideo

(* The commit of a handler that leaves the component mounted. *)
Commit(cap, mode, bd, bdChanged, T, A) ==
  LET e == Effects(cap, mode, bd, bdChanged, T, analysisIntervalRef,
                   soundInterval)
  IN  /\ isCapturing' = cap
      /\ captureMode' = mode
      /\ biometricData' = bd
      /\ timers' = WithFrameClock(e.timers, A)
      /\ analysisIntervalRef' = e.air
      /\ soundInterval' = e.sid
      /\ elapsed' = IF cap /\ ~isCapturing THEN 0 ELSE elapsed
      /\ soundPlayed' = IF cap /\ ~isCapturing THEN FALSE ELSE soundPlayed

(* The commit that unmounts CaptureInterface: the effect cleanups run    *)
(* (the facial and the sound interval are cleared); the ambient timers   *)
(* and the analyzers' frame loops belong to no effect and stay, with     *)
(* callbacks that now address an unmounted component.  T, A and S are    *)
(* the timers, analyzers and starts at the unmount; how says what ended  *)
(* the sessions: "stopped" (stopCapture) or "torn" (navigation).         *)
Orphan(t) == [t EXCEPT !.alive = FALSE, !.rem = 0]

Unmount(T, A, S, air, sid, how) ==
  /\ isCapturing' = FALSE
  /\ captureMode' = "audio"
  /\ biometricData' = DefaultFV
  /\ streamRef' = 0
  /\ analysisIntervalRef' = 0
  /\ soundInterval' = 0
  /\ videoEl' = NoVideo
  /\ analyzerRef' = 0
  /\ elapsed' = 0
  /\ soundPlayed' = FALSE
  /\ timers' = LET T1 == IF air # 0 THEN ClearTimer(T, air) ELSE T
                   T2 == IF sid # 0 THEN ClearTimer(T1, sid) ELSE T1
               IN  {Orphan(t) : t \in {u \in T2 : u.kind # "frame"}}
  /\ analyzers' = [i \in DOMAIN A |-> [A[i] EXCEPT !.alive = FALSE]]
  /\ starts' = [i \in DOMAIN S |->
                  [S[i] EXCEPT !.alive = FALSE,
                               !.pc = IF @ = "active" THEN how ELSE @]]

-----------------------------------------------------------------------------
(* Index *)

InitPage ==
  /\ currentView = "capture"
  /\ userSoulPrints = << >>
  /\ isCapturing = FALSE
  /\ captureMode = "audio"
  /\ biometricData = DefaultFV
  /\ streamRef = 0
  /\ analysisIntervalRef = 0
  /\ soundInterval = 0
  /\ videoEl = NoVideo
  /\ analyzerRef = 0
  /\ streams = << >>
  /\ analyzers = << >>
  /\ starts = << >>
  /\ timers = {}
  /\ now = 0
  /\ nowUsed = FALSE
  /\ elapsed = 0
  /\ soundPlayed = FALSE
  /\ faults = 0
  /\ idleStops = 0
  /\ stopOutcome = "none"
  /\ ticked = FALSE
  /\ startSample = NoFV
  /\ unit = NewAnalyzer(0, TRUE)
  /\ unitCalls = 0
  /\ unitCallbacks = 0
  /\ unitStopped = FALSE

InitViz ==
  /\ vizInstance = 1
  /\ vizMounted = TRUE
  /\ isActive = FALSE
  /\ vizIntensity = 500
  /\ pulsePhase = 0
  /\ phaseTimers = PhaseEffect({}, 1, FALSE)
  /\ phaseTicked = FALSE

(* CaptureInterface is mounted and its first effect has run:             *)
(* initializeSynth() created an object and awaits its initialize().      *)
InitSynth ==
  /\ synthRef = 1
  /\ synthObjs = << SS_initialize(NewSynth) >>
  /\ synthTimers = {}
  /\ plays = << >>
  /\ fired = {}
  /\ seq = NoSequence
  /\ synthCalls = 0

Init ==
  /\ InitPage
  /\ InitViz
  /\ InitSynth
  /\ input = NoInput
  /\ output = NoOutput
  /\ fellBack = FALSE

(* Navigation: onNavigate(v) is setCurrentView(v); leaving 'capture'     *)
(* unmounts CaptureInterface, entering it mounts a new instance.         *)
Navigate(v) ==
  /\ v # currentView
  /\ currentView' = v
  /\ IF currentView = "capture"
       THEN Unmount(timers, analyzers, starts, analysisIntervalRef,
                    soundInterval, "torn")
       ELSE UNCHANGED << isCapturing, captureMode, biometricData,
                         streamRef, analysisIntervalRef, soundInterval,
                         videoEl, analyzerRef, analyzers, starts, timers,
                         elapsed, soundPlayed >>
  /\ stopOutcome' = "none"
  /\ ticked' = FALSE
  /\ startSample' = NoFV
  /\ UNCHANGED << userSoulPrints, streams, now, nowUsed, faults, idleStops,
                  sideVars >>

-----------------------------------------------------------------------------
(* CaptureInterface: the handlers *)

(* A mode button: setCaptureMode(mode); disabled while isCapturing. *)
SelectMode(m) ==
  /\ Mounted
  /\ ~isCapturing
  /\ m # captureMode
  /\ Commit(FALSE, m, biometricData, FALSE, timers, analyzers)
  /\ videoEl' = VideoAfter(FALSE, m, videoEl)
  /\ UNCHANGED << currentView, userSoulPrints, streamRef, analyzerRef,
                  streams, analyzers, starts, now, nowUsed, faults, idleStops,
                  sideVars, stopOutcome, ticked, startSample >>

(* startCapture reaches "streamRef.current = stream; setIsCapturing(true)" *)
(* for invocation i with stream st; S are the starts, bd the vector.       *)
EnterCapturing(i, st, S, bd, bdChanged, T, A, V) ==
  /\ streamRef' = st
  /\ videoEl' = VideoAfter(TRUE, captureMode, V)
  /\ starts' = [S EXCEPT ![i].pc = "active", ![i].stream = st,
                         ![i].toast = "success"]
  /\ Commit(TRUE, captureMode, bd, bdChanged, T, A)

(* A catch block that records the failure and shows nothing. *)
Fail_Silent(S, i, why) ==
  [S EXCEPT ![i].pc = "failed", ![i].failure = why]

(* The catch block of startCapture: console.error and toast.error. *)
Fail(S, i, why) ==
  [S EXCEPT ![i].pc = "failed", ![i].failure = why, ![i].toast = "error"]

(* The ambient branch of startCapture: no await, the whole call is one step. *)
StartAmbient ==
  LET i == Len(starts) + 1
      st == Len(streams) + 1
      refs == {analysisIntervalRef, soundInterval}
      iv == FreshTimer(timers, refs)
      T1 == timers \cup {Timer(iv, "ambient", AmbientIntervalMs, NoFV, i, 0)}
      to == FreshTimer(T1, refs)
      T2 == T1 \cup {Timer(to, "ambientStop", AmbientStopMs, NoFV, i, iv)}
  IN  /\ streams' = Append(streams, NewStream("dummy", i))
      /\ EnterCapturing(i, st, Append(starts, NewStart("ambient", "active", 0)),
                        biometricData, FALSE, T2, analyzers, videoEl)
      /\ UNCHANGED << analyzerRef, analyzers, startSample >>

(* The start button (rendered while ~isCapturing): startCapture up to its *)
(* first await.                                                           *)
StartCapture ==
  /\ Mounted
  /\ ~isCapturing
  /\ Len(starts) + idleStops < MaxStarts
  /\ CASE captureMode = "audio" ->
            /\ starts' = Append(starts, NewStart("audio", "gum", 1))
            /\ UNCHANGED << isCapturing, captureMode, biometricData,
                            streamRef, analysisIntervalRef, soundInterval,
                            videoEl, analyzerRef, streams, analyzers, timers,
                            elapsed, soundPlayed, startSample >>
       [] captureMode = "video" ->
            /\ starts' = Append(starts, NewStart("video", "enum", 0))
            /\ UNCHANGED << isCapturing, captureMode, biometricData,
                            streamRef, analysisIntervalRef, soundInterval,
                            videoEl, analyzerRef, streams, analyzers, timers,
                            elapsed, soundPlayed, startSample >>
       [] OTHER -> StartAmbient
  /\ UNCHANGED << currentView, userSoulPrints, now, nowUsed, faults,
                  idleStops, sideVars, stopOutcome, ticked >>


(* getUserMedia({audio}) rejects: the catch block of startCapture. *)
GumDenied(i) ==
  /\ i \in DOMAIN starts
  /\ starts[i].pc = "gum"
  /\ starts' = Fail(starts, i, "denied")
  /\ UNCHANGED << currentView, userSoulPrints, isCapturing, captureMode,
                  biometricData, streamRef, analysisIntervalRef,
                  soundInterval, videoEl, analyzerRef, streams, analyzers,
                  timers, now, nowUsed, elapsed, soundPlayed, faults,
                  idleStops, sideVars, stopOutcome, ticked, startSample >>

(* getUserMedia({audio}) resolves and useAudioAnalyzer.startAnalysis      *)
(* throws out of AudioAnalyzer.initialize: the catch block of startCapture.*)
GumInitFail(i, fail) ==
  /\ i \in DOMAIN starts
  /\ starts[i].pc = "gum"
  /\ fail \in {"context", "source"}
  /\ streams' = Append(streams, NewStream("mic", i))
  /\ analyzers' = Append(analyzers,
                         AA_initialize(NewAnalyzer(i, starts[i].alive), fail))
  /\ analyzerRef' = IF starts[i].alive THEN Len(analyzers) + 1
                    ELSE analyzerRef
  /\ starts' = [Fail(starts, i, "init") EXCEPT ![i].stream = Len(streams) + 1]
  /\ UNCHANGED << currentView, userSoulPrints, isCapturing, captureMode,
                  biometricData, streamRef, analysisIntervalRef,
                  soundInterval, videoEl, timers, now, nowUsed, elapsed,
                  soundPlayed, faults, idleStops, sideVars, stopOutcome,
                  ticked, startSample >>

(* getUserMedia({audio}) resolves, the analyzer is created, initialized   *)
(* and started (its first analyze() reads data and calls                  *)
(* setBiometricData), and startCapture runs to its end.  fv is that       *)
(* first tick's vector, Analyze of the buffer read.                       *)
GumGranted(i, fv) ==
  /\ i \in DOMAIN starts
  /\ starts[i].pc = "gum"
  /\ LET st == Len(streams) + 1
         an == Len(analyzers) + 1
         a == AA_startAnalysis(
                AA_initialize(NewAnalyzer(i, starts[i].alive), "none"),
                FALSE)
         A == Append(analyzers, a)
     IN  /\ streams' = Append(streams, NewStream("mic", i))
         /\ analyzers' = A
         /\ IF starts[i].alive
              THEN /\ analyzerRef' = an
                   /\ startSample' = fv
                   /\ EnterCapturing(i, st, starts, fv, TRUE,
                                     timers, A, videoEl)
              ELSE /\ starts' = [starts EXCEPT ![i].pc = "orphan",
                                               ![i].stream = st,
                                               ![i].toast = "success"]
                   /\ UNCHANGED << isCapturing, captureMode, biometricData,
                                   streamRef, analysisIntervalRef,
                                   soundInterval, videoEl, analyzerRef,
                                   timers, elapsed, soundPlayed,
                                   startSample >>
  /\ UNCHANGED << currentView, userSoulPrints, now, nowUsed, faults,
                  idleStops, sideVars, stopOutcome, ticked >>

(* checkCameraSupport resolves: outcome "has", "none" (no videoinput) or  *)
(* "error" (enumerateDevices rejected, which it turns into false).        *)
EnumResolve(i, outcome) ==
  /\ i \in DOMAIN starts
  /\ starts[i].pc = "enum"
  /\ starts' = IF outcome = "has"
                 THEN [starts EXCEPT ![i].pc = "cam", ![i].gum = @ + 1]
                 ELSE Fail(starts, i, "nodevice")
  /\ UNCHANGED << currentView, userSoulPrints, isCapturing, captureMode,
                  biometricData, streamRef, analysisIntervalRef,
                  soundInterval, videoEl, analyzerRef, streams, analyzers,
                  timers, now, nowUsed, elapsed, soundPlayed, faults,
                  idleStops, sideVars, stopOutcome, ticked, startSample >>

(* startCamera rejects. *)
CamDenied(i) ==
  /\ i \in DOMAIN starts
  /\ starts[i].pc = "cam"
  /\ starts' = Fail(starts, i, "denied")
  /\ UNCHANGED << currentView, userSoulPrints, isCapturing, captureMode,
                  biometricData, streamRef, analysisIntervalRef,
                  soundInterval, videoEl, analyzerRef, streams, analyzers,
                  timers, now, nowUsed, elapsed, soundPlayed, faults,
                  idleStops, sideVars, stopOutcome, ticked, startSample >>

(* startCamera resolves.  With a <video> element rendered (videoRef.current *)
(* set) the stream becomes its srcObject and startCapture awaits            *)
(* onloadedmetadata; with none it runs to its end.                          *)
CamGranted(i) ==
  /\ i \in DOMAIN starts
  /\ starts[i].pc = "cam"
  /\ LET st == Len(streams) + 1
     IN  /\ streams' = Append(streams, NewStream("cam", i))
         /\ CASE starts[i].alive /\ videoEl.present ->
                   /\ videoEl' = [videoEl EXCEPT !.src = st, !.handler = i,
                                                 !.readyState = 0]
                   /\ starts' = [starts EXCEPT ![i].pc = "meta",
                                               ![i].stream = st]
                   /\ UNCHANGED << isCapturing, captureMode, biometricData,
                                   streamRef, analysisIntervalRef,
                                   soundInterval, timers, elapsed,
                                   soundPlayed >>
              [] starts[i].alive /\ ~videoEl.present ->
                   EnterCapturing(i, st, starts, biometricData, FALSE,
                                  timers, analyzers, videoEl)
              [] OTHER ->
                   /\ starts' = [starts EXCEPT ![i].pc = "orphan",
                                               ![i].stream = st,
                                               ![i].toast = "success"]
                   /\ UNCHANGED << isCapturing, captureMode, biometricData,
                                   streamRef, analysisIntervalRef,
                                   soundInterval, videoEl, timers, elapsed,
                                   soundPlayed >>
  /\ UNCHANGED << currentView, userSoulPrints, analyzerRef, analyzers, now,
                  nowUsed, faults, idleStops, sideVars, stopOutcome, ticked,
                  startSample >>

(* The <video> element loads its srcObject: loadedmetadata fires (the     *)
(* startCapture awaiting it runs to its end) and the first frame arrives. *)
VideoLoaded ==
  /\ videoEl.present
  /\ videoEl.src # 0
  /\ streams[videoEl.src].live
  /\ videoEl.readyState < 2
  /\ LET i == videoEl.handler
     IN  IF i # 0 /\ starts[i].pc = "meta"
           THEN EnterCapturing(i, starts[i].stream, starts, biometricData,
                               FALSE, timers, analyzers,
                               [videoEl EXCEPT !.readyState = 2])
           ELSE /\ videoEl' = [videoEl EXCEPT !.readyState = 2]
                /\ UNCHANGED << isCapturing, captureMode, biometricData,
                                streamRef, analysisIntervalRef,
                                soundInterval, starts, timers, elapsed,
                                soundPlayed >>
  /\ UNCHANGED << currentView, userSoulPrints, analyzerRef, streams,
                  analyzers, now, nowUsed, faults, idleStops, sideVars,
                  stopOutcome, ticked, startSample >>


(* stopCapture.  The inputs say which teardown call fails: track.stop()   *)
(* throws, microphone.disconnect() throws, audioContext.close() rejects,  *)
(* captureFrame fails inside its own try.  A throw leaves stopCapture     *)
(* where it stands.                                                       *)
stopCapture(trackFail, discFail, closeFail, frameFail) ==
  /\ Mounted
  /\ LET B(f) == IF f THEN 1 ELSE 0
         n == B(trackFail) + B(discFail) + B(closeFail) + B(frameFail)
     IN  /\ n <= 1
         /\ faults + n <= MaxFaults
         /\ faults' = faults + n
  /\ LET hasTrack == streamRef # 0 /\ streams[streamRef].kind # "dummy"
         threw1 == hasTrack /\ trackFail
         ST1 == IF streamRef # 0
                  THEN [streams EXCEPT ![streamRef].live = FALSE]
                  ELSE streams
         c == AA_cleanup(analyzers[analyzerRef], discFail, closeFail)
         threw2 == analyzerRef # 0 /\ c.threw
         A1 == IF analyzerRef # 0
                 THEN [analyzers EXCEPT ![analyzerRef] = c.a]
                 ELSE analyzers
         T1 == IF analysisIntervalRef # 0
                 THEN ClearTimer(timers, analysisIntervalRef)
                 ELSE timers
         frame == IF captureMode = "video" /\ videoEl.present
                    THEN captureFrame(frameFail).value ELSE ""
         soulPrint == MakeSoulPrint(now, captureMode, biometricData,
                                    IF frame = "" THEN "undefined" ELSE frame)
     IN  CASE threw1 ->
                /\ stopOutcome' = "threw"
                /\ UNCHANGED << currentView, userSoulPrints, isCapturing,
                                captureMode, biometricData, streamRef,
                                analysisIntervalRef, soundInterval, videoEl,
                                analyzerRef, streams, analyzers, starts,
                                timers, nowUsed, elapsed, soundPlayed >>
           [] ~threw1 /\ threw2 ->
                /\ stopOutcome' = "threw"
                /\ streams' = ST1
                /\ streamRef' = 0
                /\ analyzers' = A1
                /\ timers' = WithFrameClock(timers, A1)
                /\ UNCHANGED << currentView, userSoulPrints, isCapturing,
                                captureMode, biometricData,
                                analysisIntervalRef, soundInterval, videoEl,
                                analyzerRef, starts, nowUsed, elapsed,
                                soundPlayed >>
           [] OTHER ->
                /\ stopOutcome' = "ok"
                /\ streams' = ST1
                /\ userSoulPrints' =
                     handleSoulPrintGenerated(userSoulPrints, soulPrint)
                /\ currentView' = "gallery"
                /\ nowUsed' = TRUE
                /\ Unmount(T1, A1, starts, 0, soundInterval, "stopped")
  /\ trackFail => streamRef # 0 /\ streams[streamRef].kind # "dummy"
  /\ discFail => analyzerRef # 0 /\ analyzers[analyzerRef].microphone # "null"
  /\ closeFail => analyzerRef # 0 /\ analyzers[analyzerRef].audioContext # "null"
  /\ frameFail => captureMode = "video" /\ videoEl.present
  /\ UNCHANGED << now, ticked, startSample, sideVars >>

(* The stop button, rendered while isCapturing. *)
StopCapture(trackFail, discFail, closeFail, frameFail) ==
  /\ isCapturing
  /\ stopCapture(trackFail, discFail, closeFail, frameFail)
  /\ UNCHANGED idleStops

(* stopCapture invoked while isCapturing is false, which no control of    *)
(* the rendered page does: the function as its callers may use it.        *)
StopCaptureIdle ==
  /\ ~isCapturing
  /\ idleStops < MaxIdleStops
  /\ Len(starts) + idleStops < MaxStarts
  /\ stopCapture(FALSE, FALSE, FALSE, FALSE)
  /\ idleStops' = idleStops + 1

-----------------------------------------------------------------------------
(* Timer and frame callbacks *)

(* The 100 ms facial poll; m is what analyzeFacialMetrics returns. *)
FacialPollFire(t, m) ==
  /\ t \in timers
  /\ t.kind = "facial"
  /\ t.rem = 0
  /\ IF videoEl.present /\ videoEl.readyState >= 2
       THEN /\ Commit(isCapturing, captureMode, FacialToFV(m), TRUE,
                      Rearm(timers, t, PollIntervalMs), analyzers)
            /\ ticked' = TRUE
       ELSE /\ timers' = Rearm(timers, t, PollIntervalMs)
            /\ UNCHANGED << isCapturing, captureMode, biometricData,
                            analysisIntervalRef, soundInterval, elapsed,
                            soundPlayed, ticked >>
  /\ UNCHANGED << currentView, userSoulPrints, streamRef, videoEl,
                  analyzerRef, streams, analyzers, starts, now, nowUsed,
                  faults, idleStops, sideVars, stopOutcome, startSample >>

(* The 800 ms sound interval: playBiometricSounds(biometricData) with the *)
(* vector of the render that registered it.                               *)
SoundFire(t) ==
  /\ t \in timers
  /\ t.kind = "sound"
  /\ t.rem = 0
  /\ soundPlayed' = TRUE
  /\ timers' = Rearm(timers, t, SoundIntervalMs)
  /\ UNCHANGED << currentView, userSoulPrints, isCapturing, captureMode,
                  biometricData, streamRef, analysisIntervalRef,
                  soundInterval, videoEl, analyzerRef, streams, analyzers,
                  starts, now, nowUsed, elapsed, faults, idleStops, sideVars,
                  stopOutcome, ticked, startSample >>

(* The 150 ms ambient generator.  On an unmounted component its           *)
(* setBiometricData changes nothing.                                      *)
AmbientTick(t) ==
  /\ t \in timers
  /\ t.kind = "ambient"
  /\ IF t.alive
       THEN /\ t.rem = 0
            /\ Commit(isCapturing, captureMode, AmbientFV(biometricData),
                      TRUE, Rearm(timers, t, AmbientIntervalMs), analyzers)
            /\ ticked' = TRUE
       ELSE UNCHANGED << isCapturing, captureMode, biometricData,
                         analysisIntervalRef, soundInterval, elapsed,
                         soundPlayed, ticked, timers >>
  /\ UNCHANGED << currentView, userSoulPrints, streamRef, videoEl,
                  analyzerRef, streams, analyzers, starts, now, nowUsed,
                  faults, idleStops, sideVars, stopOutcome, startSample >>

(* setTimeout(() => clearInterval(ambientInterval), 30000) *)
AmbientStopFire(t) ==
  /\ t \in timers
  /\ t.kind = "ambientStop"
  /\ t.alive => t.rem = 0
  /\ timers' = ClearTimer(timers \ {t}, t.target)
  /\ UNCHANGED << currentView, userSoulPrints, isCapturing, captureMode,
                  biometricData, streamRef, analysisIntervalRef,
                  soundInterval, videoEl, analyzerRef, streams, analyzers,
                  starts, now, nowUsed, elapsed, soundPlayed, faults,
                  idleStops, sideVars, stopOutcome, ticked, startSample >>

(* An animation frame of the mounted instance: every pending analyze()   *)
(* runs and calls setBiometricData with fv, Analyze of the buffer read.  *)
Frame(t, fv) ==
  /\ t \in timers
  /\ t.kind = "frame"
  /\ t.rem = 0
  /\ LET A1 == [i \in DOMAIN analyzers |->
                  IF analyzers[i].alive
                    THEN FireFrames(analyzers[i], analyzers[i].pending)
                    ELSE analyzers[i]]
     IN  /\ analyzers' = A1
         /\ Commit(isCapturing, captureMode, fv, TRUE,
                   Rearm(timers, t, FramePeriod), A1)
  /\ ticked' = TRUE
  /\ UNCHANGED << currentView, userSoulPrints, streamRef, videoEl,
                  analyzerRef, streams, starts, now, nowUsed, faults,
                  idleStops, sideVars, stopOutcome, startSample >>

(* An animation frame of an analyzer whose component is unmounted. *)
OrphanFrame(i) ==
  /\ i \in DOMAIN analyzers
  /\ ~analyzers[i].alive
  /\ Running(analyzers[i])
  /\ analyzers' = [analyzers EXCEPT
                     ![i] = FireFrames(analyzers[i], analyzers[i].pending)]
  /\ UNCHANGED << currentView, userSoulPrints, isCapturing, captureMode,
                  biometricData, streamRef, analysisIntervalRef,
                  soundInterval, videoEl, analyzerRef, streams, starts,
                  timers, now, nowUsed, elapsed, soundPlayed, faults,
                  idleStops, sideVars, stopOutcome, ticked, startSample >>

(* Time passes up to the next deadline of the mounted instance's timers. *)
Advance ==
  LET Live == {t \in timers : t.alive}
      d == SetMin({t.rem : t \in Live})
  IN  /\ Live # {}
      /\ \A t \in Live : t.rem > 0
      /\ timers' = {IF t.alive THEN [t EXCEPT !.rem = @ - d] ELSE t :
                      t \in timers}
      /\ elapsed' = IF isCapturing
                      THEN Min(elapsed + d, SoundIntervalMs + 1)
                      ELSE elapsed
      /\ now' = IF nowUsed THEN now + 1 ELSE now
      /\ nowUsed' = FALSE
      /\ UNCHANGED << currentView, userSoulPrints, isCapturing, captureMode,
                      biometricData, streamRef, analysisIntervalRef,
                      soundInterval, videoEl, analyzerRef, streams, analyzers,
                      starts, soundPlayed, faults, idleStops, sideVars,
                      stopOutcome, ticked, startSample >>

(* The wall clock moves on to another millisecond. *)
ClockTick ==
  /\ nowUsed
  /\ now' = now + 1
  /\ nowUsed' = FALSE
  /\ UNCHANGED << currentView, userSoulPrints, isCapturing, captureMode,
                  biometricData, streamRef, analysisIntervalRef,
                  soundInterval, videoEl, analyzerRef, streams, analyzers,
                  starts, timers, elapsed, soundPlayed, faults, idleStops,
                  sideVars, stopOutcome, ticked, startSample >>

Next ==
  \/ \E v \in Views : Navigate(v)
  \/ \E m \in Modes : SelectMode(m)
  \/ StartCapture
  \/ \E i \in DOMAIN starts : GumDenied(i)
  \/ \E i \in DOMAIN starts, fail \in {"context", "source"} :
       GumInitFail(i, fail)
  \/ \E i \in DOMAIN starts, fv \in AudioSamples : GumGranted(i, fv)
  \/ \E i \in DOMAIN starts, outcome \in {"has", "none", "error"} :
       EnumResolve(i, outcome)
  \/ \E i \in DOMAIN starts : CamDenied(i)
  \/ \E i \in DOMAIN starts : CamGranted(i)
  \/ VideoLoaded
  \/ StopCapture(FALSE, FALSE, FALSE, FALSE)
  \/ \E t \in timers, m \in FacialSamples : FacialPollFire(t, m)
  \/ \E t \in timers : SoundFire(t)
  \/ \E t \in timers : AmbientTick(t)
  \/ \E t \in timers : AmbientStopFire(t)
  \/ \E t \in timers, fv \in AudioSamples : Frame(t, fv)
  \/ \E i \in DOMAIN analyzers : OrphanFrame(i)
  \/ Advance
  \/ ClockTick

Spec == Init /\ [][Next]_vars

-----------------------------------------------------------------------------
(* class AudioAnalyzer driven through its public methods, in any order. *)

(* await analyzer.initialize(stream), once on a new object. *)
UnitInitialize(fail) ==
  /\ unitCalls < MaxCalls
  /\ unit.audioContext = "null"
  /\ unit' = AA_initialize(unit, fail)
  /\ unitCalls' = unitCalls + 1
  /\ UNCHANGED << unitCallbacks, unitStopped, appVars, tickVars, auxVars >>

(* analyzer.startAnalysis(callback) *)
UnitStartAnalysis(stopInside) ==
  /\ unitCalls < MaxCalls
  /\ unit.analyser => unitCallbacks < MaxCallbacks
  /\ unit' = AA_startAnalysis(unit, stopInside)
  /\ unitCalls' = unitCalls + 1
  /\ unitCallbacks' = IF unit.analyser THEN unitCallbacks + 1
                                       ELSE unitCallbacks
  /\ unitStopped' = IF unit.analyser THEN stopInside ELSE unitStopped
  /\ UNCHANGED << appVars, tickVars, auxVars >>

(* analyzer.stopAnalysis() *)
UnitStopAnalysis ==
  /\ unitCalls < MaxCalls
  /\ unit' = AA_stopAnalysis(unit)
  /\ unitCalls' = unitCalls + 1
  /\ unitStopped' = TRUE
  /\ UNCHANGED << unitCallbacks, appVars, tickVars, auxVars >>

(* analyzer.cleanup() *)
UnitCleanup ==
  /\ unitCalls < MaxCalls
  /\ unit' = AA_cleanup(unit, FALSE, FALSE).a
  /\ unitCalls' = unitCalls + 1
  /\ unitStopped' = TRUE
  /\ UNCHANGED << unitCallbacks, appVars, tickVars, auxVars >>

(* The browser serves the animation frame with handle h. *)
UnitFrame(h, stopInside) ==
  /\ h \in unit.pending
  /\ unitCallbacks < MaxCallbacks
  /\ unit' = analyze(unit, h, stopInside)
  /\ unitCallbacks' = unitCallbacks + 1
  /\ unitStopped' = (unitStopped \/ stopInside)
  /\ UNCHANGED << unitCalls, appVars, tickVars, auxVars >>

NextAnalyzer ==
  \/ \E fail \in {"none", "context", "source"} : UnitInitialize(fail)
  \/ \E stopInside \in BOOLEAN : UnitStartAnalysis(stopInside)
  \/ UnitStopAnalysis
  \/ UnitCleanup
  \/ \E h \in 1..(MaxCalls + 1), stopInside \in BOOLEAN :
       UnitFrame(h, stopInside)

SpecAnalyzer == Init /\ [][NextAnalyzer]_vars

-----------------------------------------------------------------------------
(* The same program in a browser whose teardown calls may fail. *)
StopCaptureFault ==
  \E trackFail, discFail, closeFail, frameFail \in BOOLEAN :
    /\ trackFail \/ discFail \/ closeFail \/ frameFail
    /\ StopCapture(trackFail, discFail, closeFail, frameFail)

NextFaults == Next \/ StopCaptureFault

SpecFaults == Init /\ [][NextFaults]_vars

(* The same program with stopCapture open to calls outside a session. *)
NextApi == Next \/ StopCaptureIdle

SpecApi == Init /\ [][NextApi]_vars

-----------------------------------------------------------------------------
(* The analysis ticks on their own, over every frame and spectrum of the *)
(* model.                                                                *)

InitFeatures ==
  /\ InitPage
  /\ InitViz
  /\ InitSynth
  /\ input \in Inputs
  /\ output = NoOutput
  /\ fellBack = FALSE

(* The video element shows another frame, the analyser node another      *)
(* spectrum, before the next tick.                                       *)
Deliver(i) ==
  /\ output # NoOutput
  /\ i.kind = input.kind
  /\ input' = i
  /\ output' = NoOutput
  /\ UNCHANGED << fellBack, appVars, unitVars, auxVars >>

(* One run of the facial poll's callback on the frame in the video       *)
(* element: analyzeFacialMetrics, then setBiometricData of its           *)
(* conversion; an error leaving analyzeFacialMetrics leaves the callback.*)
FacialTick ==
  /\ input.kind = "frame"
  /\ output = NoOutput
  /\ LET metrics == analyzeFacialMetrics(input.frame)
     IN  /\ output' = [kind |-> "facial", threw |-> metrics.threw,
                       metrics |-> metrics.value,
                       fv |-> IF metrics.threw THEN NoFV
                                ELSE FacialToFV(metrics.value)]
         /\ fellBack' = (fellBack \/ ExtractionThrows(input.frame))
  /\ UNCHANGED << input, appVars, unitVars, auxVars >>

(* captureFrame on the frame in the video element. *)
CaptureFrame(fail) ==
  /\ input.kind = "frame"
  /\ output = NoOutput
  /\ LET r == captureFrame(fail)
     IN  output' = [kind |-> "capture", threw |-> r.threw,
                    dataURL |-> r.value, failed |-> fail]
  /\ UNCHANGED << input, fellBack, appVars, unitVars, auxVars >>

(* One run of the analyzer's animation-frame callback on the spectrum in *)
(* the analyser node.                                                    *)
AudioTick ==
  /\ input.kind = "buffer"
  /\ output = NoOutput
  /\ output' = [kind |-> "audio", fv |-> Analyze(input.data)]
  /\ UNCHANGED << input, fellBack, appVars, unitVars, auxVars >>

NextFeatures ==
  \/ \E i \in Inputs : Deliver(i)
  \/ FacialTick
  \/ \E fail \in BOOLEAN : CaptureFrame(fail)
  \/ AudioTick

SpecFeatures == InitFeatures /\ [][NextFeatures]_vars

-----------------------------------------------------------------------------
(* The SoulPrint visualization on its own, under a parent that changes   *)
(* its props, unmounts it and mounts it again.                           *)

(* The parent renders with another isActive: the effect's dependency     *)
(* changed, so its cleanup runs and then the effect.                     *)
SetActive(b) ==
  /\ vizMounted
  /\ b # isActive
  /\ isActive' = b
  /\ phaseTimers' =
       PhaseEffect(PhaseEffectCleanup(phaseTimers, vizInstance),
                   vizInstance, b)
  /\ phaseTicked' = FALSE
  /\ UNCHANGED << vizInstance, vizMounted, vizIntensity, pulsePhase,
                  appVars, unitVars, tickVars, synthVars >>

(* The parent renders with another intensity: no dependency changed. *)
SetIntensity(x) ==
  /\ vizMounted
  /\ x # vizIntensity
  /\ vizIntensity' = x
  /\ phaseTicked' = FALSE
  /\ UNCHANGED << vizInstance, vizMounted, isActive, pulsePhase,
                  phaseTimers, appVars, unitVars, tickVars, synthVars >>

(* The interval's callback: setPulsePhase(prev => (prev + 1) % 360); a   *)
(* state update of an instance that is no longer mounted does nothing.   *)
PhaseTick(t) ==
  /\ t \in phaseTimers
  /\ pulsePhase' = IF vizMounted /\ t.owner = vizInstance
                     THEN (pulsePhase + 1) % PhaseModulus
                     ELSE pulsePhase
  /\ phaseTicked' = TRUE
  /\ UNCHANGED << vizInstance, vizMounted, isActive, vizIntensity,
                  phaseTimers, appVars, unitVars, tickVars, synthVars >>

(* The parent removes the visualization: the effect's cleanup runs. *)
VizUnmount ==
  /\ vizMounted
  /\ vizMounted' = FALSE
  /\ phaseTimers' = PhaseEffectCleanup(phaseTimers, vizInstance)
  /\ phaseTicked' = FALSE
  /\ UNCHANGED << vizInstance, isActive, vizIntensity, pulsePhase,
                  appVars, unitVars, tickVars, synthVars >>

(* The parent renders the visualization again: a new instance, with      *)
(* useState(0) and the effect of its first render.                       *)
VizMount(b) ==
  /\ ~vizMounted
  /\ vizInstance < MaxInstances
  /\ vizInstance' = vizInstance + 1
  /\ vizMounted' = TRUE
  /\ isActive' = b
  /\ pulsePhase' = 0
  /\ phaseTimers' = PhaseEffect(phaseTimers, vizInstance + 1, b)
  /\ phaseTicked' = FALSE
  /\ UNCHANGED << vizIntensity, appVars, unitVars, tickVars, synthVars >>

NextViz ==
  \/ \E b \in BOOLEAN : SetActive(b)
  \/ \E x \in {300, 500} : SetIntensity(x)
  \/ \E t \in phaseTimers : PhaseTick(t)
  \/ VizUnmount
  \/ \E b \in BOOLEAN : VizMount(b)

SpecViz == Init /\ [][NextViz]_vars

-----------------------------------------------------------------------------
(* The sound synthesizer.  Steps shared by the two specifications below: *)
(* the method bodies acting on object id, and the asynchronous events.   *)

(* FeatureVectors given to playBiometricSounds: harmonics of 5 and 7     *)
(* entries, at, below and above the 0.1 gate.                            *)
SynthFVs ==
  {[intensity |-> x, harmonics |-> h, resonance |-> 500] :
     x \in {300, 1000},
     h \in {<< 400, 600, 100, 800, 0 >>,
            << 500, 500, 500, 500, 500, 500, 500 >>}}

(* cleanup() disposes the reverb that pending ambient notes play into. *)
Stale(T, id) ==
  {IF t.kind = "ambient" /\ t.obj = id THEN [t EXCEPT !.stale = TRUE] ELSE t :
     t \in T}

DoInitialize(id) ==
  synthObjs' = [synthObjs EXCEPT ![id] = SS_initialize(@)]

DoCleanup(id) ==
  /\ synthObjs' = [synthObjs EXCEPT ![id] = SS_cleanup(@)]
  /\ synthTimers' = Stale(synthTimers, id)

DoPlayBiometric(id, fv) ==
  LET call == Len(plays) + 1
      triggers == PlayTriggers(synthObjs[id], fv)
  IN  /\ plays' = Append(plays, [obj |-> id, fv |-> fv,
                                  initialized |-> synthObjs[id].isInitialized,
                                  triggers |-> triggers])
      /\ synthTimers' = synthTimers \cup
           {[kind |-> "trigger", obj |-> id, call |-> call,
             index |-> t.index, stale |-> FALSE] : t \in triggers}

(* playAmbientSounds(): four notes 200 ms apart, then the dispose of the *)
(* ambient voice after 5 s, as one timeout with its stage.               *)
DoPlayAmbient(id) ==
  synthTimers' =
    IF synthObjs[id].isInitialized
      THEN synthTimers \cup {[kind |-> "ambient", obj |-> id, call |-> 0,
                               index |-> 0, stale |-> FALSE]}
      ELSE synthTimers

DoGenerate(id) ==
  seq' = SS_generate(synthObjs[id], id, seq)

(* await Tone.start() settles for one suspended initialize() of id. *)
ToneStarted(id, ok) ==
  /\ id \in DOMAIN synthObjs
  /\ synthObjs[id].awaiting > 0
  /\ synthObjs' = [synthObjs EXCEPT ![id] = SS_resume(@, ok)]
  /\ UNCHANGED << synthRef, synthTimers, plays, fired, seq, synthCalls,
                  appVars, unitVars, tickVars, vizVars >>

(* A trigger timeout of playBiometricSounds runs: of one call, the one   *)
(* with the shortest delay first.                                        *)
TriggerFire(t) ==
  /\ t \in synthTimers
  /\ t.kind = "trigger"
  /\ \A u \in synthTimers :
       (u.kind = "trigger" /\ u.call = t.call) => t.index <= u.index
  /\ synthTimers' = synthTimers \ {t}
  /\ fired' = fired \cup
       {[kind |-> "trigger", call |-> t.call, index |-> t.index,
         outcome |-> TriggerOutcome(synthObjs[t.obj], t.index)]}
  /\ UNCHANGED << synthRef, synthObjs, plays, seq, synthCalls, appVars,
                  unitVars, tickVars, vizVars >>

(* The next timeout of playAmbientSounds runs: a note of the ambient     *)
(* voice, which plays into the reverb it was chained to, or after the    *)
(* fourth note its dispose.                                              *)
AmbientNoteFire(t) ==
  /\ t \in synthTimers
  /\ t.kind = "ambient"
  /\ synthTimers' =
       (synthTimers \ {t}) \cup
         (IF t.index < 4 THEN {[t EXCEPT !.index = @ + 1]} ELSE {})
  /\ fired' = IF t.index < 4
                THEN fired \cup
                       {[kind |-> "ambient", call |-> 0, index |-> 0,
                         outcome |-> IF t.stale THEN "stale" ELSE "played"]}
                ELSE fired
  /\ UNCHANGED << synthRef, synthObjs, plays, seq, synthCalls, appVars,
                  unitVars, tickVars, vizVars >>

(* The Transport runs the sequence's callback. *)
SeqNote ==
  /\ seq.state = "started"
  /\ seq.notes < MaxNotes
  /\ seq' = SS_note(synthObjs[seq.obj], seq)
  /\ UNCHANGED << synthRef, synthObjs, synthTimers, plays, fired,
                  synthCalls, appVars, unitVars, tickVars, vizVars >>

(* The 3 s timeout of generateSoulPrintAudio: sequence.stop(). The first *)
(* callback is due when the Transport starts, long before it.            *)
SeqStop ==
  /\ seq.state = "started"
  /\ seq.notes > 0
  /\ seq' = [seq EXCEPT !.state = "stopped"]
  /\ UNCHANGED << synthRef, synthObjs, synthTimers, plays, fired,
                  synthCalls, appVars, unitVars, tickVars, vizVars >>

SynthAsync ==
  \/ \E id \in DOMAIN synthObjs, ok \in BOOLEAN : ToneStarted(id, ok)
  \/ \E t \in synthTimers : TriggerFire(t)
  \/ \E t \in synthTimers : AmbientNoteFire(t)
  \/ SeqNote
  \/ SeqStop

-----------------------------------------------------------------------------
(* One SoundSynthesizer with its methods called directly, in any order.  *)

ClassCall(id) ==
  /\ id = 1
  /\ synthCalls < MaxSynthCalls
  /\ synthCalls' = synthCalls + 1

ClassInitialize(id) ==
  /\ ClassCall(id)
  /\ DoInitialize(id)
  /\ UNCHANGED << synthRef, synthTimers, plays, fired, seq, appVars,
                  unitVars, tickVars, vizVars >>

ClassCleanup(id) ==
  /\ ClassCall(id)
  /\ DoCleanup(id)
  /\ UNCHANGED << synthRef, plays, fired, seq, appVars, unitVars,
                  tickVars, vizVars >>

ClassPlayBiometric(id, fv) ==
  /\ ClassCall(id)
  /\ Len(plays) < MaxPlays
  /\ DoPlayBiometric(id, fv)
  /\ UNCHANGED << synthRef, synthObjs, fired, seq, appVars, unitVars,
                  tickVars, vizVars >>

ClassPlayAmbient(id) ==
  /\ ClassCall(id)
  /\ DoPlayAmbient(id)
  /\ UNCHANGED << synthRef, synthObjs, plays, fired, seq, appVars,
                  unitVars, tickVars, vizVars >>

ClassGenerate(id) ==
  /\ ClassCall(id)
  /\ seq.state = "none"
  /\ DoGenerate(id)
  /\ UNCHANGED << synthRef, synthObjs, synthTimers, plays, fired, appVars,
                  unitVars, tickVars, vizVars >>

NextSynth ==
  \/ ClassInitialize(1)
  \/ ClassCleanup(1)
  \/ \E fv \in SynthFVs : ClassPlayBiometric(1, fv)
  \/ ClassPlayAmbient(1)
  \/ ClassGenerate(1)
  \/ SynthAsync

SpecSynth == Init /\ [][NextSynth]_vars

-----------------------------------------------------------------------------
(* The synthesizer as CaptureInterface drives it through the hook        *)
(* useSoundSynthesizer: the handlers' calls into the hook and the state  *)
(* that decides them (the view, isCapturing, the session list).  The     *)
(* handlers' work on streams, analyzers and intervals does not touch the *)
(* synthesizer and is left to the specifications above.                  *)

(* initializeSynth(): a new object and its initialize(), unless the ref  *)
(* holds one.                                                            *)
HookInitialize ==
  IF synthRef = 0
    THEN /\ synthObjs' = Append(synthObjs, SS_initialize(NewSynth))
         /\ synthRef' = Len(synthObjs) + 1
    ELSE UNCHANGED << synthObjs, synthRef >>

(* cleanup(): synthRef.current?.cleanup(); synthRef.current = null *)
HookCleanup ==
  /\ IF synthRef # 0
       THEN DoCleanup(synthRef)
       ELSE UNCHANGED << synthObjs, synthTimers >>
  /\ synthRef' = 0

(* onNavigate(v): leaving 'capture' unmounts CaptureInterface (the       *)
(* effect's cleanup is cleanupSynth), entering it mounts a new one (the  *)
(* effect is initializeSynth).                                           *)
PageNavigate(v) ==
  /\ v # currentView
  /\ currentView' = v
  /\ IF currentView = "capture"
       THEN /\ HookCleanup
            /\ isCapturing' = FALSE
       ELSE IF v = "capture"
         THEN /\ Len(synthObjs) < MaxSynthObjs
              /\ HookInitialize
              /\ UNCHANGED << synthTimers, isCapturing >>
         ELSE UNCHANGED << synthObjs, synthRef, synthTimers, isCapturing >>
  /\ UNCHANGED << userSoulPrints, plays, fired, seq, synthCalls, pageRest,
                  unitVars, tickVars, vizVars >>

(* startCapture reaching setIsCapturing(true); in ambient mode it has    *)
(* called playAmbientSounds() on its way.                                *)
PageStart(ambient) ==
  /\ currentView = "capture"
  /\ ~isCapturing
  /\ isCapturing' = TRUE
  /\ IF ambient /\ synthRef # 0
       THEN DoPlayAmbient(synthRef)
       ELSE UNCHANGED synthTimers
  /\ UNCHANGED << currentView, userSoulPrints, synthRef, synthObjs, plays,
                  fired, seq, synthCalls, pageRest, unitVars, tickVars,
                  vizVars >>

(* The 800 ms sound interval's callback: playBiometricSounds(fv). *)
PageSound(fv) ==
  /\ currentView = "capture"
  /\ isCapturing
  /\ fv.intensity > IntensityGate
  /\ Len(plays) < MaxPlays
  /\ IF synthRef # 0
       THEN DoPlayBiometric(synthRef, fv)
       ELSE UNCHANGED << plays, synthTimers >>
  /\ UNCHANGED << currentView, userSoulPrints, isCapturing, synthRef,
                  synthObjs, fired, seq, synthCalls, pageRest, unitVars,
                  tickVars, vizVars >>

(* stopCapture: generateSoulPrintAudio(soulPrint), then                  *)
(* onSoulPrintGenerated(soulPrint), which stores the record and switches *)
(* to the gallery; the commit unmounts CaptureInterface.                 *)
PageStop ==
  /\ currentView = "capture"
  /\ isCapturing
  /\ seq.state = "none"
  /\ isCapturing' = FALSE
  /\ IF synthRef # 0 THEN DoGenerate(synthRef) ELSE UNCHANGED seq
  /\ userSoulPrints' =
       handleSoulPrintGenerated(
         userSoulPrints,
         MakeSoulPrint(now, captureMode, biometricData, "undefined"))
  /\ currentView' = "gallery"
  /\ HookCleanup
  /\ UNCHANGED << plays, fired, synthCalls, pageRest, unitVars, tickVars,
                  vizVars >>

NextSound ==
  \/ \E v \in Views : PageNavigate(v)
  \/ \E ambient \in BOOLEAN : PageStart(ambient)
  \/ \E fv \in {x \in SynthFVs : Len(x.harmonics) = Bands} : PageSound(fv)
  \/ PageStop
  \/ SynthAsync

SpecSound == Init /\ [][NextSound]_vars

-----------------------------------------------------------------------------
(* Properties *)

Ended(i) == starts[i].pc \in {"stopped", "torn"}

(* C1: in every state in which a capture session has ended, by           *)
(* stopCapture or by navigating away from the capture view, every stream *)
(* that startCapture acquired for that session has had its tracks        *)
(* stopped.                                                              *)
C1_StreamsReleasedOnExit ==
  \A k \in DOMAIN streams :
    Ended(streams[k].owner) => ~streams[k].live

(* C2: stop() cancels both loops in every capture mode: once stopCapture *)
(* has run for a session, none of the session's feature loops (the       *)
(* analyzer's animation-frame loop, the 100 ms facial poll, the 150 ms   *)
(* ambient generator) and no 800 ms sound loop is still scheduled.       *)
C2_StopCancelsLoops ==
  \A i \in DOMAIN starts :
    starts[i].pc = "stopped" =>
      /\ \A t \in timers :
           /\ ~(t.kind = "ambient" /\ t.owner = i)
           /\ ~(t.kind \in {"facial", "sound"} /\ ~t.alive)
      /\ \A k \in DOMAIN analyzers :
           analyzers[k].owner = i => ~Running(analyzers[k])

(* C3: a capture session that has stayed Capturing for more than 800 ms  *)
(* has had playBiometricSounds invoked by the time it ends, however      *)
(* often the feature loop produces FeatureVectors.                       *)
C3_SoundLoopRuns ==
  [][(isCapturing /\ ~isCapturing' /\ elapsed > SoundIntervalMs)
       => soundPlayed]_vars

(* C4: at any moment the mounted orchestrator holds at most one          *)
(* unreleased device stream and at most one running audio analysis loop, *)
(* for every interleaving of startCapture invocations.                   *)
C4_OneSessionAtATime ==
  /\ Cardinality({k \in DOMAIN streams :
                    streams[k].live /\ starts[streams[k].owner].alive}) <= 1
  /\ Cardinality({k \in DOMAIN analyzers :
                    analyzers[k].alive /\ Running(analyzers[k])}) <= 1

Refused(s) == s.pc = "failed" /\ s.failure \in {"denied", "nodevice"}

(* C5: when device access is denied or no device is available during a   *)
(* start, the step that fails leaves isCapturing, streamRef and the      *)
(* FeatureVector as they were (a component that was idle stays idle),    *)
(* the failure is shown as an error notification, and that start has     *)
(* made at most one getUserMedia call: one when it was denied, none when *)
(* no camera exists.                                                     *)
C5_RefusedStartStaysIdle ==
  [][\A i \in DOMAIN starts' :
       Refused(starts'[i]) =>
         /\ starts'[i].toast = "error"
         /\ starts'[i].stream = 0
         /\ starts'[i].gum = IF starts'[i].failure = "denied" THEN 1 ELSE 0
         /\ (i \in DOMAIN starts /\ ~Refused(starts[i])) =>
              UNCHANGED << isCapturing, streamRef, biometricData >>
       ]_vars

(* C5 witness: one start was denied access and another found no device. *)
C5_Witness ==
  \E i, j \in DOMAIN starts :
    /\ Refused(starts[i]) /\ starts[i].failure = "denied"
    /\ Refused(starts[j]) /\ starts[j].failure = "nodevice"
    /\ ~isCapturing

(* C6: whichever teardown step fails (stopping a track, disconnecting    *)
(* the source node, closing the audio context, capturing the final       *)
(* frame), stopCapture sets isCapturing to false, delivers a SoulPrint   *)
(* and throws nothing.                                                   *)
C6_StopAlwaysSucceeds ==
  [][StopCaptureFault =>
       /\ isCapturing' = FALSE
       /\ Len(userSoulPrints') = Len(userSoulPrints) + 1
       /\ stopOutcome' = "ok"]_vars

(* C7: a stopCapture invoked while isCapturing is false creates no        *)
(* SoulPrint, does not call onSoulPrintGenerated (which would prepend to  *)
(* the session list and switch the view) and leaves the capture state     *)
(* unchanged.                                                             *)
C7_IdleStopIsNoOp ==
  [][StopCaptureIdle =>
       UNCHANGED << userSoulPrints, currentView, isCapturing, captureMode,
                    biometricData, streamRef, analyzerRef,
                    analysisIntervalRef >>]_vars

(* C8: over any sequence of calls on one AudioAnalyzer the microphone    *)
(* source node is disconnected at most once and the audio context is     *)
(* closed at most once.                                                  *)
C8_NoDoubleRelease ==
  unit.disconnects <= 1 /\ unit.closes <= 1

(* C9: once stopAnalysis() (or cleanup()) has returned, no animation     *)
(* frame invokes the callback until the next startAnalysis, also when    *)
(* startAnalysis was called more than once or stopAnalysis was called    *)
(* from inside the callback.                                             *)
C9_StoppedLoopStaysStopped ==
  [][(unitStopped /\ unitCalls' = unitCalls)
       => unitCallbacks' = unitCallbacks]_vars

WellFormed(p) ==
  /\ DOMAIN p = {"id", "timestamp", "captureMode", "biometricData",
                 "visualSignature", "audioSignature", "capturedFrame"}
  /\ p.captureMode \in Modes
  /\ Len(p.biometricData.harmonics) = Bands
  /\ p.visualSignature = generateVisualSignature(p.biometricData,
                                                 p.captureMode)
  /\ p.audioSignature = generateAudioSignature(p.biometricData,
                                               p.captureMode)

ImmediateStop == stopOutcome = "ok" /\ ~ticked /\ userSoulPrints # << >>

(* C10, as stated: a stop immediately after a successful start, with no  *)
(* timer or frame tick in between, delivers a well-formed SoulPrint      *)
(* whose biometricData is the initial default FeatureVector, in every    *)
(* capture mode.                                                         *)
C10_ImmediateStopHasDefault ==
  ImmediateStop =>
    /\ WellFormed(Head(userSoulPrints))
    /\ Head(userSoulPrints).biometricData = DefaultFV

(* C10, amended: such a stop delivers a well-formed SoulPrint whose      *)
(* biometricData is the initial default FeatureVector unless an audio    *)
(* start ran in the session, and then it is the vector of the analysis   *)
(* pass that startAnalysis ran inside that start.                        *)
C10_ImmediateStopHasStartVector ==
  ImmediateStop =>
    /\ WellFormed(Head(userSoulPrints))
    /\ Head(userSoulPrints).biometricData =
         IF startSample = NoFV THEN DefaultFV ELSE startSample

(* C10 witness: an audio session stopped before any frame, its first     *)
(* sample differing from the default vector.                             *)
C10_Witness ==
  /\ ImmediateStop
  /\ Head(userSoulPrints).captureMode = "audio"
  /\ startSample \notin {NoFV, DefaultFV}

(* C11: a SoulPrint is created once per capture session and never        *)
(* mutated: the session list changes only in the step that stops a       *)
(* Capturing session, that step puts exactly one record at the head, and *)
(* every record already in the list stays as it was, in its place.       *)
C11_SoulPrintsAppendOnly ==
  [][/\ userSoulPrints' # userSoulPrints =>
          /\ isCapturing /\ ~isCapturing'
          /\ Len(userSoulPrints') = Len(userSoulPrints) + 1
          /\ Tail(userSoulPrints') = userSoulPrints
     /\ (isCapturing /\ stopOutcome' = "ok") =>
          /\ Len(userSoulPrints') = Len(userSoulPrints) + 1
          /\ Head(userSoulPrints').captureMode = captureMode
          /\ Head(userSoulPrints').biometricData = biometricData
    ]_vars

(* C11 witness: two sessions were stopped and the older record is still  *)
(* in the list, behind the newer one.                                    *)
C11_Witness ==
  /\ Len(userSoulPrints) = 2
  /\ stopOutcome = "ok"
  /\ userSoulPrints[1] # userSoulPrints[2]

(* C12: in every reachable state the records of the session list have    *)
(* pairwise distinct ids, whatever the timing of the stops that made     *)
(* them.                                                                 *)
C12_IdsDistinct ==
  \A i, j \in DOMAIN userSoulPrints :
    i # j => userSoulPrints[i].id # userSoulPrints[j].id

(* C13: after a successful start in video mode the acquired camera       *)
(* stream is the frame source of the polled <video> element: while the   *)
(* component is Capturing in video mode with a video start active, the   *)
(* element is rendered and its srcObject is that start's stream (without *)
(* which the 100 ms poll never sees a frame).                            *)
C13_CameraStreamAttached ==
  \A i \in DOMAIN starts :
    (/\ Mounted /\ isCapturing /\ captureMode = "video"
     /\ starts[i].alive /\ starts[i].mode = "video"
     /\ starts[i].pc = "active" /\ streamRef = starts[i].stream)
      => (videoEl.present /\ videoEl.src = starts[i].stream)

(* C14: at every moment at which an ambient session is Capturing, its    *)
(* 150 ms generator timer is registered and due within the next 150 ms,  *)
(* however long the session lasts.                                       *)
C14_AmbientGeneratorKeepsTicking ==
  \A i \in DOMAIN starts :
    (/\ Mounted /\ isCapturing
     /\ starts[i].alive /\ starts[i].mode = "ambient"
     /\ starts[i].pc = "active")
      => \E t \in timers :
           /\ t.kind = "ambient" /\ t.owner = i /\ t.alive
           /\ t.rem <= AmbientIntervalMs

(* C15: a facial extraction failure (a frame of zero width or height, or *)
(* too narrow to have halves) never leaves analyzeFacialMetrics as an    *)
(* error: the tick gets brightness, contrast, symmetry and               *)
(* expressionIntensity 0.5 and emotionalValence 0, and it and every      *)
(* later tick of the poll still produce a FeatureVector of 5 harmonics;  *)
(* captureFrame returns the empty string where drawing or encoding       *)
(* fails, and never throws.                                              *)
C15_ExtractionFailureFallsBack ==
  /\ output.kind = "facial" =>
       /\ ~output.threw
       /\ Len(output.fv.harmonics) = 5
       /\ ExtractionThrows(input.frame) =>
            output.metrics = [brightness |-> 500, contrast |-> 500,
                              symmetry |-> 500, expressionIntensity |-> 500,
                              emotionalValence |-> 0]
  /\ output.kind = "capture" =>
       /\ ~output.threw
       /\ output.failed => output.dataURL = ""

(* C15: a tick on a well-formed frame after an earlier tick fell back. *)
C15_Witness ==
  /\ fellBack
  /\ output.kind = "facial"
  /\ ~ExtractionThrows(input.frame)
  /\ output.fv.intensity = 1000

UnitRange(x) == 0 <= x /\ x <= 1000

InUnitRange(fv) ==
  /\ UnitRange(fv.intensity)
  /\ \A i \in DOMAIN fv.harmonics : UnitRange(fv.harmonics[i])
  /\ UnitRange(fv.resonance)

(* C16: every FeatureVector that an audio tick computes from a spectrum  *)
(* of 128 byte magnitudes, and every one that a facial poll tick         *)
(* converts from the metrics of a frame or from the neutral fallback,    *)
(* has its intensity, each of its harmonics and its resonance in [0, 1]. *)
C16_FeatureVectorInUnitRange ==
  output.kind \in {"audio", "facial"} =>
    /\ Len(output.fv.harmonics) = Bands
    /\ InUnitRange(output.fv)

(* C16: a facial tick after a fallback whose frame has so much contrast  *)
(* that the scaled value is cut off at 1.                                *)
C16_Witness ==
  /\ fellBack
  /\ output.kind = "facial"
  /\ output.fv.harmonics[1] = 1000
  /\ output.fv.intensity = 500

(* C17: for every frame, of any width and height and any pixel values,   *)
(* the FacialMetrics that analyzeFacialMetrics returns have              *)
(* emotionalValence in [-1, 1] and brightness, contrast, symmetry and    *)
(* expressionIntensity each in [0, 1].                                   *)
C17_FacialMetricsInRange ==
  output.kind = "facial" =>
    /\ UnitRange(output.metrics.brightness)
    /\ UnitRange(output.metrics.contrast)
    /\ UnitRange(output.metrics.symmetry)
    /\ UnitRange(output.metrics.expressionIntensity)
    /\ -1000 <= output.metrics.emotionalValence
    /\ output.metrics.emotionalValence <= 1000

(* C17: the metrics of a frame whose scaled contrast exceeds 1 and whose *)
(* halves differ in every pixel.                                         *)
C17_Witness ==
  /\ output.kind = "facial"
  /\ ~ExtractionThrows(input.frame)
  /\ input.frame.w = MaxW
  /\ output.metrics.contrast = 1000
  /\ output.metrics.symmetry = 0

(* C18: an audio tick over a spectrum of zeros yields intensity 0, every *)
(* harmonic 0 and resonance 0; over any other spectrum resonance is the  *)
(* magnitude-weighted mean bin index divided by the bin count, which for *)
(* a spectrum with one non-zero bin is that bin's index over 128.        *)
C18_SilenceYieldsZeroVector ==
  output.kind = "audio" =>
    /\ (\A k \in DOMAIN input.data : input.data[k] = 0) =>
         /\ output.fv.intensity = 0
         /\ \A i \in 1..5 : output.fv.harmonics[i] = 0
         /\ output.fv.resonance = 0
    /\ \A bin \in 0..127 :
         (\A k \in DOMAIN input.data : input.data[k] > 0 <=> k = bin + 1)
           => output.fv.resonance = (bin * 1000) \div 128

(* C18: the tick over the spectrum of zeros has run. *)
C18_Witness ==
  /\ output.kind = "audio"
  /\ Len(input.data) = 128
  /\ \A k \in DOMAIN input.data : input.data[k] = 0
  /\ output.fv.resonance = 0

Uniform(f, p) == \A k \in DOMAIN f.px : f.px[k] = p

(* C19: on a frame of at least 2 columns and 1 row whose pixels are all  *)
(* black, facial extraction yields brightness 0, contrast 0, symmetry 1, *)
(* expressionIntensity 0 and emotionalValence -1; on one whose pixels    *)
(* are all white it yields brightness 1, emotionalValence 1, contrast 0  *)
(* and symmetry 1.                                                       *)
C19_UniformFrames ==
  (output.kind = "facial" /\ input.frame.w >= 2 /\ input.frame.h >= 1) =>
    /\ Uniform(input.frame, [r |-> 0, g |-> 0, b |-> 0]) =>
         output.metrics = [brightness |-> 0, contrast |-> 0,
                           symmetry |-> 1000, expressionIntensity |-> 0,
                           emotionalValence |-> -1000]
    /\ Uniform(input.frame, [r |-> 255, g |-> 255, b |-> 255]) =>
         /\ output.metrics.brightness = 1000
         /\ output.metrics.emotionalValence = 1000
         /\ output.metrics.contrast = 0
         /\ output.metrics.symmetry = 1000

(* C19: the metrics of an all-white frame of odd width and two rows. *)
C19_Witness ==
  /\ output.kind = "facial"
  /\ input.frame.w = 3
  /\ input.frame.h = 2
  /\ Uniform(input.frame, [r |-> 255, g |-> 255, b |-> 255])
  /\ output.metrics.brightness = 1000

(* C20: each audio tick produces exactly 5 harmonics; harmonics[i] is    *)
(* the mean of bins 25i..25i+24 divided by 255, the band width being     *)
(* floor(128 / 5) = 25; bins 125..127 contribute to no harmonic, while   *)
(* intensity (and resonance) are taken over all 128 bins.                *)
C20_BandsTruncate ==
  output.kind = "audio" =>
    /\ Len(input.data) = 128
    /\ Len(output.fv.harmonics) = 5
    /\ \A i \in 0..4 :
         output.fv.harmonics[i + 1] =
           (SumSeq([k \in 1..25 |-> input.data[25 * i + k]]) * 1000)
             \div (25 * 255)
    /\ output.fv.intensity =
         (SumSeq([k \in 1..128 |-> input.data[k]]) * 1000) \div (128 * 255)
    /\ \A bin \in 125..127 :
         (\A k \in DOMAIN input.data :
            input.data[k] = (IF k = bin + 1 THEN 255 ELSE 0))
           => /\ \A i \in 1..5 : output.fv.harmonics[i] = 0
              /\ output.fv.intensity = 7
              /\ output.fv.resonance = (bin * 1000) \div 128

(* C20: the tick over a spectrum whose only non-zero bin is bin 127. *)
C20_Witness ==
  /\ output.kind = "audio"
  /\ input.data[128] = 255
  /\ \A k \in 1..127 : input.data[k] = 0
  /\ \A i \in 1..5 : output.fv.harmonics[i] = 0
  /\ output.fv.intensity > 0

(* C21: the visualization's pulsePhase is always an integer in 0..359;   *)
(* on each tick of its 50 ms interval while isActive is true it advances *)
(* by exactly 1 modulo 360; a step of the same instance that is not a    *)
(* tick leaves it unchanged, no tick happens while isActive is false,    *)
(* and an instance never has more than one phase timer registered.       *)
C21_PhaseCounter ==
  [][/\ pulsePhase' \in 0..359
     /\ \A i \in 1..vizInstance' :
          Cardinality({t \in phaseTimers' : t.owner = i}) <= 1
     /\ \A t \in phaseTimers' : t.period = 50
     /\ phaseTicked' =>
          /\ isActive /\ vizMounted
          /\ pulsePhase' = (pulsePhase + 1) % 360
     /\ (~phaseTicked' /\ vizInstance' = vizInstance) =>
          pulsePhase' = pulsePhase
    ]_vars

(* C21: the counter has wrapped around to 0 on a tick, in the second     *)
(* instance.                                                             *)
C21_Witness ==
  /\ phaseTicked
  /\ isActive
  /\ vizInstance = 2
  /\ pulsePhase = 0

Pending(c) == {t \in synthTimers : t.kind = "trigger" /\ t.call = c}

Played(c) ==
  {f.index : f \in {g \in fired : g.kind = "trigger" /\ g.call = c
                                   /\ g.outcome = "played"}}

(* C22: band index is voice index: once the timeouts of a                *)
(* playBiometricSounds call have run, the voices it triggered are        *)
(* exactly the i with the synthesizer initialized at the call, i < 5 and *)
(* harmonics[i] > 0.1; the note of voice i is computed from intensity    *)
(* and harmonics[i] alone; and no voice index outside 0..4 is addressed, *)
(* whatever the length of harmonics.                                     *)
C22_BandIsVoice ==
  \A c \in DOMAIN plays :
    /\ \A t \in plays[c].triggers :
         /\ t.index \in 0..4
         /\ t.frequency =
              ((220000 + plays[c].fv.intensity * 220) * (t.index + 1)) \div 2
         /\ t.volume =
              Max(-40000,
                  (plays[c].fv.harmonics[t.index + 1] * plays[c].fv.intensity)
                    \div 1000 - 60000)
    /\ Pending(c) = {} =>
         Played(c) =
           {i \in 0..(Len(plays[c].fv.harmonics) - 1) :
              plays[c].initialized /\ i < 5
                /\ plays[c].fv.harmonics[i + 1] > 100}

(* C23: a start that fails after its device stream was acquired          *)
(* releases it: when the microphone was granted and attaching the stream *)
(* to the analyzer (AudioAnalyzer.initialize) threw, the tracks of the   *)
(* acquired stream are stopped and no analyzer loop of that start is     *)
(* running once startCapture has returned.                               *)
C23_FailedStartReleasesStream ==
  \A i \in DOMAIN starts :
    (starts[i].pc = "failed" /\ starts[i].failure = "init") =>
      /\ \A k \in DOMAIN streams : streams[k].owner = i => ~streams[k].live
      /\ \A a \in DOMAIN analyzers :
           analyzers[a].owner = i => ~Running(analyzers[a])

(* C25: the capture mode of a session is fixed from start to stop: the   *)
(* captureMode recorded in the SoulPrint that stopCapture builds equals  *)
(* the mode of the start whose input was acquired for the session, also  *)
(* when the user selected another mode while that start was awaiting     *)
(* device access.                                                        *)
C25_ModeFixedForSession ==
  [][(isCapturing /\ Len(userSoulPrints') = Len(userSoulPrints) + 1) =>
       \A i \in DOMAIN starts :
         (starts[i].pc = "active" /\ starts[i].alive) =>
           Head(userSoulPrints').captureMode = starts[i].mode
    ]_vars

(* C26: in every reachable state the capture component has at most one  *)
(* facial-poll interval and at most one 800 ms sound interval            *)
(* registered, and neither is registered while isCapturing is false or   *)
(* after the component has unmounted.                                    *)
C26_OnePollOneSoundInterval ==
  /\ Cardinality({t \in timers : t.kind = "facial"}) <= 1
  /\ Cardinality({t \in timers : t.kind = "sound"}) <= 1
  /\ (~isCapturing \/ ~Mounted) =>
       \A t \in timers : t.kind \notin {"facial", "sound"}

(* C26: a video session with both intervals registered, begun by the    *)
(* second start of the run.                                              *)
C26_Witness ==
  /\ isCapturing
  /\ captureMode = "video"
  /\ Len(starts) = 2
  /\ Cardinality({t \in timers : t.kind = "facial"}) = 1
  /\ Cardinality({t \in timers : t.kind = "sound"}) = 1

(* C27: no voice is used after the synthesizer has been cleaned up:      *)
(* every timeout scheduled by playBiometricSounds or playAmbientSounds   *)
(* that runs after cleanup() neither throws nor addresses a disposed or  *)
(* absent voice or effect.                                               *)
C27_NoUseAfterCleanup ==
  \A f \in fired : f.outcome = "played"

(* C28: once the capture view is unmounted and the hook's cleanup has    *)
(* run, no SoundSynthesizer created by the hook holds undisposed voices  *)
(* or effects and none is initialized, also when an initialize() was     *)
(* still awaiting the audio start at the cleanup.                        *)
C28_NothingHeldAfterUnmount ==
  currentView # "capture" =>
    \A id \in DOMAIN synthObjs :
      /\ synthObjs[id].synths = 0
      /\ ~synthObjs[id].reverb
      /\ ~synthObjs[id].filter
      /\ ~synthObjs[id].isInitialized
      /\ synthObjs[id].leaked = 0

(* C29: for every sequence and interleaving of initialize() and          *)
(* cleanup() calls on one SoundSynthesizer, whenever none of its         *)
(* initialize() calls is suspended, isInitialized is true exactly when   *)
(* it holds exactly 5 voices with one filter and one reverb, and         *)
(* otherwise it holds no voice and no effect; initialize() on an         *)
(* initialized synthesizer creates nothing.                              *)
C29_InitializedMeansFiveVoices ==
  synthObjs[1].awaiting = 0 =>
    IF synthObjs[1].isInitialized
      THEN /\ synthObjs[1].synths = 5
           /\ synthObjs[1].reverb
           /\ synthObjs[1].filter
           /\ synthObjs[1].leaked = 0
      ELSE /\ synthObjs[1].synths = 0
           /\ ~synthObjs[1].reverb
           /\ ~synthObjs[1].filter

(* C30: after stopCapture has delivered a SoulPrint inside the           *)
(* application, the sequence started by generateSoulPrintAudio triggers  *)
(* at least one note on voice 0 before it is stopped 3 s later.          *)
C30_SoulPrintAudioPlays ==
  seq.state = "stopped" => seq.hits >= 1

Lum(f, x, y) ==
  LET p == f.px[y * f.w + x + 1]
  IN  (299 * p.r + 587 * p.g + 114 * p.b) \div 255

(* C24: symmetry is 1 minus the mean, over the left half (columns        *)
(* 0..floor(w/2)-1), of |lum(x, y) - lum(x + floor(w/2), y)|, clamped to *)
(* [0, 1]: the right half is the equally wide block that starts at       *)
(* column floor(w/2), so for odd w exactly the last column takes no part *)
(* and both halves have the same number of pixels.                       *)
C24_SymmetryPairsHalves ==
  (output.kind = "facial" /\ input.frame.w >= 2 /\ input.frame.h >= 1) =>
    LET f == input.frame
        hw == f.w \div 2
        diff == SumSeq([k \in 1..(hw * f.h) |->
                          LET x == (k - 1) % hw
                              y == (k - 1) \div hw
                              d == Lum(f, x, y) - Lum(f, x + hw, y)
                          IN  IF d < 0 THEN -d ELSE d])
        sym == 1000 - diff \div (hw * f.h)
    IN  output.metrics.symmetry =
          (IF sym < 0 THEN 0 ELSE IF sym > 1000 THEN 1000 ELSE sym)

(* C24: a frame of odd width whose first two columns are equal and whose *)
(* last column differs from them: symmetry is 1.                         *)
C24_Witness ==
  /\ output.kind = "facial"
  /\ input.frame.w = 3
  /\ input.frame.h = 1
  /\ input.frame.px[1] = input.frame.px[2]
  /\ input.frame.px[3] # input.frame.px[1]
  /\ output.metrics.symmetry = 1000

=============================================================================
